---- MODULE Spec2Model ----
(***************************************************************************)
(* Agent state containers, media store and action handlers of the Veo /    *)
(* Imagen quickstart: lib/storage/image-store.ts, lib/agent/actions-fixed  *)
(* (generate-veo-video, check-video-status, generate-imagen-image,         *)
(* list-media, clear-project) and lib/agent/index (analytics, preferences, *)
(* media-library and video-project contexts).                              *)
(*                                                                         *)
(* Text is modelled as a sequence of tokens.  A base64 digit is the token  *)
(* "A" or "B" (standing for the byte 0 or 1); the pieces of a data URL     *)
(* header are the tokens "data:", "image/", <subtype>, ";base64,".         *)
(***************************************************************************)
EXTENDS Integers, Sequences, FiniteSets, TLC

\* ------------------------------------------------------------------ bounds
MaxId == 2          \* identifiers handed out by crypto.randomUUID
MaxBlobs == 1       \* object URLs handed out by URL.createObjectURL
MaxLen == 2         \* bytes in an image payload
MaxEvents == 3      \* tracked analytics events
MaxDur == 2         \* largest tracked duration
MaxBatch == 2       \* image payloads in one provider response
MaxSteps == 2       \* steps in one workflow
MaxTemplates == 2   \* saved workflow templates
MaxCallers == 2     \* requests calling getAgent at the same time
MaxName == 2        \* characters in a userId or a projectId

\* --------------------------------------------------------------- constants
VideoCost == 50
ImageCost == 10

Undefined == "undefined"
Null == <<>>
NoFile == <<-1>>
NoId == 0
NoUrl == <<>>
JunkByte == 2

FileIds == 1..MaxId

SeqsUpTo(S, n) == UNION {[1..k -> S] : k \in 0..n}

ByteStrings == SeqsUpTo({0, 1}, MaxLen) \ {<<>>}

\* ------------------------------------------------------------------ base64
\* buffer.toString('base64')
Base64Encode(bytes) == [i \in 1..Len(bytes) |-> IF bytes[i] = 0 THEN "A" ELSE "B"]

\* Buffer.from(text, 'base64'): a digit gives its byte; the letters of any
\* header token left in the text are base64 digits too and give bytes that
\* are not image data.
Base64Decode(text) ==
  [i \in 1..Len(text) |-> IF text[i] = "A" THEN 0 ELSE IF text[i] = "B" THEN 1 ELSE JunkByte]

\* \w+ of the prefix pattern: letters, digits and underscore only
WordTokens == {"png", "jpeg"}
SubTypes == WordTokens \cup {"svg+xml"}

DataUrl(subtype, digits) == <<"data:", "image/", subtype, ";base64,">> \o digits

IsDataUrl(text) == Len(text) >= 1 /\ text[1] = "data:"

\* base64Data.replace(/^data:image\/\w+;base64,/, '')
StripPrefix(text) ==
  IF /\ Len(text) >= 4
     /\ text[1] = "data:" /\ text[2] = "image/"
     /\ text[3] \in WordTokens /\ text[4] = ";base64,"
  THEN SubSeq(text, 5, Len(text))
  ELSE text

\* the image bytes a payload (raw base64 or data URL) carries
PayloadBytes(text) ==
  IF IsDataUrl(text) THEN Base64Decode(SubSeq(text, 5, Len(text))) ELSE Base64Decode(text)

Payloads ==
  {Base64Encode(b) : b \in ByteStrings}
    \cup {DataUrl(t, Base64Encode(b)) : t \in SubTypes, b \in ByteStrings}

\* ------------------------------------------------------------- media store
ImageUrl(imageId) == <<"/generated-images/", imageId, ".png">>

\* saveImage: fails (throws) when the write fails, else the file holds the
\* decoded buffer
saveImageDisk(d, imageId, base64Data) ==
  [d EXCEPT ![imageId] = Base64Decode(StripPrefix(base64Data))]

\* loadImage: null when the read throws
loadImage(d, imageId, fails) ==
  IF imageId \in fails \/ d[imageId] = NoFile
  THEN Null
  ELSE DataUrl("png", Base64Encode(d[imageId]))

\* deleteImage: errors are swallowed
deleteImage(d, imageId, fails) ==
  IF imageId \in fails THEN d ELSE [d EXCEPT ![imageId] = NoFile]

RECURSIVE clearProjectImages(_, _, _)
clearProjectImages(d, imageIds, fails) ==
  IF imageIds = <<>> THEN d
  ELSE clearProjectImages(deleteImage(d, Head(imageIds), fails), Tail(imageIds), fails)

\* ------------------------------------------------------------------- state
VARIABLES
  videos,       \* video-project memory: videos
  images,       \* video-project memory: images
  libVideos,    \* media-library memory: videos
  libImages,    \* media-library memory: images
  analytics,    \* veo-analytics memory
  disk,         \* public/generated-images: file id -> bytes, or NoFile
  diskFaulty,   \* environment: file operations may fail
  nextId,       \* crypto.randomUUID: next fresh identifier
  nextBlob,     \* URL.createObjectURL: next fresh object URL
  lastOp,       \* history: the last completed saveImage / deleteImage per id
  last,         \* history: the last operation, its outbound calls and result
  activeWorkflows,    \* video-project memory: activeWorkflows
  videoSettings,      \* veo-preferences memory: videoSettings
  workflowTemplates,  \* veo-preferences memory: workflowTemplates
  inflight,     \* the requests in progress, each at one of its await points
  contexts,     \* the video-project memories the agent keeps, by context key
  agentInstance,  \* the module-level agent of getAgent
  callers       \* the requests that called getAgent, each at one of its await points

projVars == <<videos, images>>
libVars == <<libVideos, libImages>>
storeVars == <<disk, lastOp>>
idVars == <<nextId, nextBlob>>
prefVars == <<videoSettings, workflowTemplates>>
extVars == <<activeWorkflows, prefVars, inflight>>
sysVars == <<diskFaulty, contexts, agentInstance, callers>>
vars == <<videos, images, libVideos, libImages, analytics, disk, diskFaulty, nextId, nextBlob,
          lastOp, last, activeWorkflows, videoSettings, workflowTemplates, inflight,
          contexts, agentInstance, callers>>

\* the sets of failing file ids an operation may meet
IoFails == IF diskFaulty THEN SUBSET FileIds ELSE {{}}

\* AnalyticsMemory as created; averageVideoTime is kept as an exact fraction
createAnalytics ==
  [events |-> <<>>,
   costs |-> [totalVideos |-> 0, totalImages |-> 0, estimatedCost |-> 0],
   performance |-> [averageVideoTime |-> [num |-> 0, den |-> 1]]]

NoOp == [op |-> "none", data |-> Null]

\* PreferencesMemory.videoSettings as created; a key a record never had is
\* Undefined
createVideoSettings ==
  [aspectRatio |-> "16:9", model |-> "veo-3.0-generate-preview",
   defaultNegativePrompt |-> Undefined, preferredStyle |-> Undefined,
   negativePrompt |-> Undefined, style |-> Undefined]

\* no request in progress
Idle == [gen |-> [pc |-> "idle"], clr |-> [pc |-> "idle"]]

\* the requests that may call getAgent at the same time
Callers == 1..MaxCallers
NotCalling == [pc |-> "idle", got |-> "none"]

InitCommon ==
  /\ videos = <<>>
  /\ images = <<>>
  /\ libVideos = <<>>
  /\ libImages = <<>>
  /\ analytics = createAnalytics
  /\ disk = [i \in FileIds |-> NoFile]
  /\ nextId = 1
  /\ nextBlob = 1
  /\ lastOp = [i \in FileIds |-> NoOp]
  /\ last = [action |-> "none"]
  /\ activeWorkflows = <<>>
  /\ videoSettings = createVideoSettings
  /\ workflowTemplates = <<>>
  /\ inflight = Idle
  /\ contexts = <<>>
  /\ agentInstance = "null"
  /\ callers = [c \in Callers |-> NotCalling]

Init == InitCommon /\ diskFaulty = FALSE

\* ----------------------------------------------------- media store actions
SaveImage(imageId, base64Data) ==
  \E fails \in IoFails :
    /\ IF imageId \in fails
       THEN /\ UNCHANGED storeVars
            /\ last' = [action |-> "saveImage", id |-> imageId, threw |-> TRUE, result |-> Null]
       ELSE /\ disk' = saveImageDisk(disk, imageId, base64Data)
            /\ lastOp' = [lastOp EXCEPT ![imageId] = [op |-> "save", data |-> base64Data]]
            /\ last' = [action |-> "saveImage", id |-> imageId, threw |-> FALSE,
                        result |-> ImageUrl(imageId)]
    /\ UNCHANGED <<projVars, libVars, analytics, sysVars, extVars, idVars>>

LoadImage(imageId) ==
  \E fails \in IoFails :
    /\ last' = [action |-> "loadImage", id |-> imageId, threw |-> FALSE,
                result |-> loadImage(disk, imageId, fails)]
    /\ UNCHANGED <<projVars, libVars, analytics, storeVars, sysVars, extVars, idVars>>

DeleteImage(imageId) ==
  \E fails \in IoFails :
    /\ disk' = deleteImage(disk, imageId, fails)
    /\ lastOp' = [lastOp EXCEPT ![imageId] = [op |-> "delete", data |-> Null]]
    /\ last' = [action |-> "deleteImage", id |-> imageId, threw |-> FALSE, result |-> Null]
    /\ UNCHANGED <<projVars, libVars, analytics, sysVars, extVars, idVars>>

NextStore ==
  \/ \E imageId \in FileIds, base64Data \in Payloads : SaveImage(imageId, base64Data)
  \/ \E imageId \in FileIds : LoadImage(imageId)
  \/ \E imageId \in FileIds : DeleteImage(imageId)

SpecStore == Init /\ [][NextStore]_vars

ClearProjectImages(imageIds) ==
  \E fails \in IoFails :
    /\ disk' = clearProjectImages(disk, imageIds, fails)
    /\ lastOp' = [i \in FileIds |->
                    IF \E k \in 1..Len(imageIds) : imageIds[k] = i
                    THEN [op |-> "delete", data |-> Null] ELSE lastOp[i]]
    /\ last' = [action |-> "clearProjectImages", ids |-> imageIds, threw |-> FALSE,
                result |-> Null]
    /\ UNCHANGED <<projVars, libVars, analytics, sysVars, extVars, idVars>>

\* the media store on a file system whose operations may fail
InitFaulty == InitCommon /\ diskFaulty = TRUE

NextFaultyStore ==
  \/ \E imageId \in FileIds, base64Data \in {<<"A">>, DataUrl("png", <<"B">>)} :
       SaveImage(imageId, base64Data)
  \/ \E imageId \in FileIds : LoadImage(imageId)
  \/ \E imageId \in FileIds : DeleteImage(imageId)
  \/ \E imageIds \in SeqsUpTo(FileIds, MaxBatch) : ClearProjectImages(imageIds)

SpecFaultyStore == InitFaulty /\ [][NextFaultyStore]_vars

\* C4: saveImage(id, data) followed by loadImage(id), with no other operation
\* on that id in between, returns content whose bytes equal the bytes of the
\* payload saved; deleteImage(id) followed by loadImage(id) returns null.
C4_RoundTrip ==
  last.action = "loadImage" =>
    /\ lastOp[last.id].op = "save" =>
         /\ last.result # Null
         /\ PayloadBytes(last.result) = PayloadBytes(lastOp[last.id].data)
    /\ lastOp[last.id].op = "delete" => last.result = Null

\* --------------------------------------------------------------- analytics
NoDuration == -1
Durations == {NoDuration} \cup (0..MaxDur)

RECURSIVE GCD(_, _)
GCD(a, b) == IF b = 0 THEN a ELSE GCD(b, a % b)

Fraction(n, d) == [num |-> n \div GCD(n, d), den |-> d \div GCD(n, d)]

\* variant: only successful generations are logged
trackGeneration_LogSuccessOnly(mem, type, success, duration) ==
  LET logged == [mem EXCEPT !.events = Append(@,
                   [type |-> IF type = "video" THEN "video_generated" ELSE "image_generated",
                    data |-> [success |-> success, duration |-> duration]])]
      count == mem.costs.totalVideos + 1
      avg == mem.performance.averageVideoTime
  IN  IF ~success THEN mem
      ELSE IF type = "video"
      THEN [logged EXCEPT
              !.costs.totalVideos = count,
              !.costs.estimatedCost = @ + VideoCost,
              !.performance.averageVideoTime =
                 IF duration # NoDuration /\ duration # 0
                 THEN Fraction(avg.num * (count - 1) + duration * avg.den, avg.den * count)
                 ELSE @]
      ELSE [logged EXCEPT
              !.costs.totalImages = @ + 1,
              !.costs.estimatedCost = @ + ImageCost]

\* track-generation handler
trackGeneration(mem, type, success, duration) ==
  LET logged == [mem EXCEPT !.events = Append(@,
                   [type |-> IF type = "video" THEN "video_generated" ELSE "image_generated",
                    data |-> [success |-> success, duration |-> duration]])]
      count == mem.costs.totalVideos + 1
      avg == mem.performance.averageVideoTime
  IN  IF ~success THEN logged
      ELSE IF type = "video"
      THEN [logged EXCEPT
              !.costs.totalVideos = count,
              !.costs.estimatedCost = @ + VideoCost,
              !.performance.averageVideoTime =
                 IF duration # NoDuration /\ duration # 0
                 THEN Fraction(avg.num * (count - 1) + duration * avg.den, avg.den * count)
                 ELSE @]
      ELSE [logged EXCEPT
              !.costs.totalImages = @ + 1,
              !.costs.estimatedCost = @ + ImageCost]

TrackGeneration(type, success, duration) ==
  /\ Len(analytics.events) < MaxEvents
  /\ analytics' = trackGeneration(analytics, type, success, duration)
  /\ last' = [action |-> "track-generation",
              args |-> [type |-> type, success |-> success, duration |-> duration], result |-> [tracked |-> TRUE]]
  /\ UNCHANGED <<projVars, libVars, storeVars, sysVars, extVars, idVars>>

NextAnalytics ==
  \E type \in {"video", "image"}, success \in BOOLEAN, duration \in Durations :
    TrackGeneration(type, success, duration)

SpecAnalytics == Init /\ [][NextAnalytics]_vars

RECURSIVE SumDurations(_)
SumDurations(events) ==
  IF events = <<>> THEN 0 ELSE Head(events).data.duration + SumDurations(Tail(events))

OnlySuccessfulTimedVideos(events) ==
  \A i \in 1..Len(events) :
    /\ events[i].type = "video_generated"
    /\ events[i].data.success
    /\ events[i].data.duration # NoDuration

\* C5: from a fresh analytics container, after N successful video events with
\* durations d1..dN, averageVideoTime equals (d1+...+dN)/N (and so is the same
\* for every ordering of the durations).
C5_AverageIsMean ==
  (Len(analytics.events) > 0 /\ OnlySuccessfulTimedVideos(analytics.events)) =>
    analytics.performance.averageVideoTime.num * Len(analytics.events)
      = SumDurations(analytics.events) * analytics.performance.averageVideoTime.den

\* ------------------------------------------------------ generate-veo-video
Veo3Models == {"veo-3.0-generate-preview", "veo-3.0-fast-generate-preview"}
Veo2Model == "veo-2.0-generate-001"
Models == Veo3Models \cup {Veo2Model}
AspectRatios == {"16:9", "9:16"}
PersonGenerations == {Undefined, "allow_all", "allow_adult", "dont_allow"}
OpNames == {"op1", "op2"}
Prompts == {"sunset"}
NegativePrompts == {Undefined, "blurry"}
UseImageIds == {NoId, 1}
ImageFiles == {Null, <<"A">>}

\* the parameters the schema admits, for given models, aspect ratios, person
\* policies and video counts
VideoArgsOf(models, aspects, persons, counts) ==
  [prompt : Prompts, model : models, negativePrompt : NegativePrompts,
   aspectRatio : aspects, personGeneration : persons,
   numberOfVideos : counts, useImageId : UseImageIds,
   useLatestImage : BOOLEAN, imageFile : ImageFiles]

VideoArgs == VideoArgsOf(Models, AspectRatios, PersonGenerations, {1, 2})

\* the schema defaults, and the requests the clients of the model send: as
\* the memory after a call depends on the parameters only through the
\* verdict of the validation, one request per verdict and image source
\* reaches every memory the full parameter space reaches
DefaultVideoArgs ==
  [prompt |-> "sunset", model |-> "veo-3.0-generate-preview", negativePrompt |-> Undefined,
   aspectRatio |-> "16:9", personGeneration |-> Undefined, numberOfVideos |-> 1,
   useImageId |-> NoId, useLatestImage |-> FALSE, imageFile |-> Null]

VideoRequests ==
  {DefaultVideoArgs,
   [DefaultVideoArgs EXCEPT !.model = "veo-3.0-fast-generate-preview", !.aspectRatio = "9:16"],
   [DefaultVideoArgs EXCEPT !.aspectRatio = "9:16", !.personGeneration = "dont_allow",
                            !.numberOfVideos = 2],
   [DefaultVideoArgs EXCEPT !.personGeneration = "allow_adult", !.numberOfVideos = 2,
                            !.imageFile = <<"A">>],
   [DefaultVideoArgs EXCEPT !.personGeneration = "allow_adult"],
   [DefaultVideoArgs EXCEPT !.personGeneration = "allow_adult", !.useLatestImage = TRUE],
   [DefaultVideoArgs EXCEPT !.personGeneration = "dont_allow", !.useImageId = 1],
   [DefaultVideoArgs EXCEPT !.numberOfVideos = 2],
   [DefaultVideoArgs EXCEPT !.model = Veo2Model, !.aspectRatio = "9:16",
                            !.numberOfVideos = 2, !.imageFile = <<"A">>,
                            !.negativePrompt = "blurry"]}

\* the answers of POST /api/veo/generate
VeoResponses ==
  {[kind |-> "throw", name |-> Undefined], [kind |-> "notok", name |-> Undefined]}
    \cup {[kind |-> "ok", name |-> n] : n \in OpNames \cup {Undefined}}

isVeo3(model) == model \in Veo3Models
isVeo2(model) == model = Veo2Model

hasImageSource(a) == a.imageFile # Null \/ a.useImageId # NoId \/ a.useLatestImage

\* variant: the aspect-ratio constraint is not checked
validateVideo_NoAspect(a) ==
  IF /\ isVeo3(a.model) /\ ~hasImageSource(a)
     /\ a.personGeneration # Undefined /\ a.personGeneration # "allow_all"
  THEN "INVALID_PERSON_GENERATION"
  ELSE IF ~isVeo2(a.model) /\ a.numberOfVideos > 1 THEN "INVALID_NUMBER_OF_VIDEOS"
  ELSE "ok"

\* variant: the person-generation constraint ignores the image sources
validateVideo_IgnoreSource(a) ==
  IF isVeo3(a.model) /\ a.aspectRatio = "9:16" THEN "INVALID_ASPECT_RATIO"
  ELSE IF /\ isVeo3(a.model)
          /\ a.personGeneration # Undefined /\ a.personGeneration # "allow_all"
       THEN "INVALID_PERSON_GENERATION"
  ELSE IF ~isVeo2(a.model) /\ a.numberOfVideos > 1 THEN "INVALID_NUMBER_OF_VIDEOS"
  ELSE "ok"

\* variant: the video-count constraint compares with the schema maximum
validateVideo_CountOffByOne(a) ==
  IF isVeo3(a.model) /\ a.aspectRatio = "9:16" THEN "INVALID_ASPECT_RATIO"
  ELSE IF /\ isVeo3(a.model) /\ ~hasImageSource(a)
          /\ a.personGeneration # Undefined /\ a.personGeneration # "allow_all"
       THEN "INVALID_PERSON_GENERATION"
  ELSE IF ~isVeo2(a.model) /\ a.numberOfVideos > 2 THEN "INVALID_NUMBER_OF_VIDEOS"
  ELSE "ok"

\* the model-specific constraints, in the handler's order
validateVideo(a) ==
  IF isVeo3(a.model) /\ a.aspectRatio = "9:16" THEN "INVALID_ASPECT_RATIO"
  ELSE IF /\ isVeo3(a.model) /\ ~hasImageSource(a)
          /\ a.personGeneration # Undefined /\ a.personGeneration # "allow_all"
       THEN "INVALID_PERSON_GENERATION"
  ELSE IF ~isVeo2(a.model) /\ a.numberOfVideos > 1 THEN "INVALID_NUMBER_OF_VIDEOS"
  ELSE "ok"

\* the starting image: uploaded file, then image by id, then latest image
resolveImage(a, fails) ==
  LET s0 == [data |-> a.imageFile, calls |-> <<>>]
      s1 == IF a.useImageId # NoId
            THEN [data |-> loadImage(disk, a.useImageId, fails),
                  calls |-> <<[to |-> "loadImage", id |-> a.useImageId]>>]
            ELSE s0
      latest == images[Len(images)]
  IN  IF a.useLatestImage /\ Len(images) > 0 /\ latest.id # NoId
      THEN [data |-> loadImage(disk, latest.id, fails),
            calls |-> Append(s1.calls, [to |-> "loadImage", id |-> latest.id])]
      ELSE s1

videoForm(a, imageData) ==
  [prompt |-> a.prompt,
   model |-> a.model,
   negativePrompt |-> a.negativePrompt,
   aspectRatio |-> a.aspectRatio,
   personGeneration |-> a.personGeneration,
   numberOfVideos |-> IF isVeo2(a.model)
                      THEN (IF a.numberOfVideos = 1 THEN "1" ELSE "2") ELSE Undefined,
   imageBase64 |-> IF imageData = Null THEN Null
                   ELSE IF IsDataUrl(imageData) THEN SubSeq(imageData, 5, Len(imageData))
                   ELSE imageData,
   imageMimeType |-> IF imageData = Null THEN Null
                     ELSE IF IsDataUrl(imageData) THEN SubSeq(imageData, 2, 3)
                     ELSE <<"image/", "png">>]

\* variant: the identifier is not drawn afresh
newVideo_FixedId(id, prompt, operationName) ==
  [id |-> 1, prompt |-> prompt, operationName |-> operationName,
   status |-> "generating", url |-> NoUrl]

newVideo(id, prompt, operationName) ==
  [id |-> id, prompt |-> prompt, operationName |-> operationName,
   status |-> "generating", url |-> NoUrl]

\* variant: the record is pushed before the response status is looked at
generateVideoHandler_PushBeforeStatus(a, resp, fails) ==
  LET check == validateVideo(a)
      img == resolveImage(a, fails)
      sent == Append(img.calls, [to |-> "/api/veo/generate", form |-> videoForm(a, img.data)])
  IN  IF check # "ok"
      THEN [result |-> [success |-> FALSE, error |-> check, message |-> "constraint"],
            calls |-> <<>>, videos |-> videos, nextId |-> nextId]
      ELSE IF resp.kind = "throw"
      THEN [result |-> [success |-> FALSE, error |-> "fetch failed",
                        message |-> "Failed to start video generation"],
            calls |-> sent, videos |-> videos, nextId |-> nextId]
      ELSE IF resp.kind = "notok"
      THEN [result |-> [success |-> FALSE, error |-> "Failed to start video generation: status",
                        message |-> "Failed to start video generation"],
            calls |-> sent,
            videos |-> Append(videos, newVideo(nextId, a.prompt, resp.name)),
            nextId |-> nextId + 1]
      ELSE [result |-> [success |-> TRUE, operationName |-> resp.name, videoId |-> nextId,
                        message |-> "Video generation started"],
            calls |-> sent,
            videos |-> Append(videos, newVideo(nextId, a.prompt, resp.name)),
            nextId |-> nextId + 1]

\* generateVideoAction.handler: result, outbound calls and memory afterwards
generateVideoHandler(a, resp, fails) ==
  LET check == validateVideo(a)
      img == resolveImage(a, fails)
      sent == Append(img.calls, [to |-> "/api/veo/generate", form |-> videoForm(a, img.data)])
  IN  IF check # "ok"
      THEN [result |-> [success |-> FALSE, error |-> check, message |-> "constraint"],
            calls |-> <<>>, videos |-> videos, nextId |-> nextId]
      ELSE IF resp.kind = "throw"
      THEN [result |-> [success |-> FALSE, error |-> "fetch failed",
                        message |-> "Failed to start video generation"],
            calls |-> sent, videos |-> videos, nextId |-> nextId]
      ELSE IF resp.kind = "notok"
      THEN [result |-> [success |-> FALSE, error |-> "Failed to start video generation: status",
                        message |-> "Failed to start video generation"],
            calls |-> sent, videos |-> videos, nextId |-> nextId]
      ELSE [result |-> [success |-> TRUE, operationName |-> resp.name, videoId |-> nextId,
                        message |-> "Video generation started"],
            calls |-> sent,
            videos |-> Append(videos, newVideo(nextId, a.prompt, resp.name)),
            nextId |-> nextId + 1]

GenerateVideo(a, resp) ==
  /\ nextId <= MaxId
  /\ \E fails \in IoFails :
       LET out == generateVideoHandler(a, resp, fails)
       IN  /\ videos' = out.videos
           /\ nextId' = out.nextId
           /\ last' = [action |-> "generate-veo-video", args |-> a,
                       result |-> out.result, calls |-> out.calls]
  /\ UNCHANGED <<images, libVars, analytics, storeVars, sysVars, extVars, nextBlob>>

\* ------------------------------------------------------ check-video-status
\* what the poll meets: the operation request throws or is refused, the job
\* is still running, it is done without a uri, or done with a uri whose
\* download is refused, throws or succeeds
PollOutcomes ==
  {"throw", "notok", "processing", "done_no_uri", "download_notok", "download_throw", "download_ok"}

BlobUrl(n) == <<"blob:", n>>

\* index of the first video of vs with the given field value, or 0
RECURSIVE FindFrom(_, _, _, _)
FindFrom(vs, field, value, i) ==
  IF i > Len(vs) THEN 0
  ELSE IF vs[i][field] = value THEN i
  ELSE FindFrom(vs, field, value, i + 1)

Find(vs, field, value) == FindFrom(vs, field, value, 1)

\* variant: every video holding the handle is marked
markReady_AllMatching(vs, operationName, url) ==
  [i \in 1..Len(vs) |->
     IF vs[i].operationName = operationName
     THEN [vs[i] EXCEPT !.status = "ready", !.url = url]
     ELSE vs[i]]

markReady(vs, operationName, url) ==
  LET i == Find(vs, "operationName", operationName)
  IN  IF i = 0 THEN vs ELSE [vs EXCEPT ![i].status = "ready", ![i].url = url]

checkVideoStatusHandler(operationName, outcome) ==
  IF outcome \in {"throw", "notok", "download_throw"}
  THEN [result |-> [success |-> FALSE, error |-> outcome,
                    message |-> "Failed to check video status"],
        videos |-> videos, nextBlob |-> nextBlob]
  ELSE IF outcome = "processing"
  THEN [result |-> [success |-> TRUE, status |-> "processing", progress |-> 0,
                    message |-> "Video is still processing"],
        videos |-> videos, nextBlob |-> nextBlob]
  ELSE IF outcome = "download_ok"
  THEN [result |-> [success |-> TRUE, status |-> "ready", url |-> BlobUrl(nextBlob),
                    message |-> "Video is ready!"],
        videos |-> markReady(videos, operationName, BlobUrl(nextBlob)),
        nextBlob |-> nextBlob + 1]
  ELSE [result |-> [success |-> FALSE, status |-> "failed",
                    message |-> "Video generation failed"],
        videos |-> videos, nextBlob |-> nextBlob]

CheckVideoStatus(operationName, outcome) ==
  /\ nextBlob <= MaxBlobs
  /\ LET out == checkVideoStatusHandler(operationName, outcome)
     IN  /\ videos' = out.videos
         /\ nextBlob' = out.nextBlob
         /\ last' = [action |-> "check-video-status",
                     args |-> [operationName |-> operationName],
                     result |-> out.result]
  /\ UNCHANGED <<images, libVars, analytics, storeVars, sysVars, extVars, nextId>>

\* --------------------------------------------------- generate-imagen-image
NoPayload == [imageBytes |-> Null, mimeType |-> Undefined]

\* the payloads a provider response may carry: image bytes (base64) with or
\* without a mime type, or an entry without bytes
ProviderPayloads ==
  {[imageBytes |-> <<"A">>, mimeType |-> "png"],
   [imageBytes |-> <<"B">>, mimeType |-> Undefined],
   [imageBytes |-> Null, mimeType |-> "png"]}

\* the JSON bodies of POST /api/imagen/generate: an images array, or the
\* single-image form
ImagenBodies ==
  {[hasImages |-> TRUE, images |-> ps, image |-> NoPayload] :
      ps \in SeqsUpTo(ProviderPayloads, MaxBatch)}
    \cup {[hasImages |-> FALSE, images |-> <<>>, image |-> p] : p \in ProviderPayloads}

ImagenResponses ==
  {[kind |-> "throw", body |-> [hasImages |-> FALSE, images |-> <<>>, image |-> NoPayload]],
   [kind |-> "notok", body |-> [hasImages |-> FALSE, images |-> <<>>, image |-> NoPayload]]}
    \cup {[kind |-> "ok", body |-> b] : b \in ImagenBodies}

\* the responses the provider of the model gives: the memory after a call
\* depends on the image bytes only through the content of the files, which
\* no handler inspects, so these carry one byte value
SamplePayloads == {p \in ProviderPayloads : p.imageBytes # <<"B">>}
                    \cup {[imageBytes |-> <<"A">>, mimeType |-> Undefined]}

ImagenSamples ==
  {r \in ImagenResponses :
     /\ \A i \in 1..Len(r.body.images) : r.body.images[i] \in SamplePayloads
     /\ r.body.image \in SamplePayloads \cup {NoPayload}}
    \cup {[kind |-> "ok",
           body |-> [hasImages |-> TRUE, image |-> NoPayload,
                     images |-> [i \in 1..MaxBatch |-> [imageBytes |-> <<"A">>,
                                                       mimeType |-> Undefined]]]]}

\* the requests the clients of the model send (the parameters only travel to
\* the provider)
ImageRequests ==
  {[prompt |-> "sunset", numberOfImages |-> 1, aspectRatio |-> "1:1"],
   [prompt |-> "sunset", numberOfImages |-> MaxBatch, aspectRatio |-> "16:9"]}

payloadDataUrl(p) ==
  DataUrl(IF p.mimeType = Undefined THEN "png" ELSE p.mimeType, p.imageBytes)

imageMetadata(id, prompt, url) == [id |-> id, prompt |-> prompt, url |-> url]

\* variant: one identifier is drawn for the whole response
storeGenerated_SameId(st, p, prompt, fails) ==
  IF st.threw \/ p.imageBytes = Null THEN st
  ELSE IF st.nextId \in fails
  THEN [st EXCEPT !.threw = TRUE]
  ELSE [st EXCEPT
          !.disk = saveImageDisk(@, st.nextId, payloadDataUrl(p)),
          !.lastOp[st.nextId] = [op |-> "save", data |-> payloadDataUrl(p)],
          !.generated = Append(@, imageMetadata(st.nextId, prompt, ImageUrl(st.nextId))),
          !.images = Append(@, imageMetadata(st.nextId, prompt, ImageUrl(st.nextId)))]

\* one image of the response: a fresh id, the file write, the metadata pushed
\* to generatedImages and to ctx.memory.images; a failed write throws and
\* ends the loop
storeGenerated(st, p, prompt, fails) ==
  IF st.threw \/ p.imageBytes = Null THEN st
  ELSE IF st.nextId \in fails
  THEN [st EXCEPT !.threw = TRUE, !.nextId = @ + 1]
  ELSE [st EXCEPT
          !.disk = saveImageDisk(@, st.nextId, payloadDataUrl(p)),
          !.lastOp[st.nextId] = [op |-> "save", data |-> payloadDataUrl(p)],
          !.generated = Append(@, imageMetadata(st.nextId, prompt, ImageUrl(st.nextId))),
          !.images = Append(@, imageMetadata(st.nextId, prompt, ImageUrl(st.nextId))),
          !.nextId = @ + 1]

RECURSIVE storeAll(_, _, _, _)
storeAll(st, ps, prompt, fails) ==
  IF ps = <<>> THEN st
  ELSE storeAll(storeGenerated(st, Head(ps), prompt, fails), Tail(ps), prompt, fails)

\* the images the handler reads from the response body
bodyPayloads(body) == IF body.hasImages THEN body.images ELSE <<body.image>>

imageIdsOf(ims) == [i \in 1..Len(ims) |-> ims[i].id]

generateImageHandler(prompt, numberOfImages, aspectRatio, resp, fails) ==
  LET st0 == [disk |-> disk, lastOp |-> lastOp, images |-> images, nextId |-> nextId,
              generated |-> <<>>, threw |-> FALSE]
      st == IF resp.kind = "ok" THEN storeAll(st0, bodyPayloads(resp.body), prompt, fails)
            ELSE st0
      sent == <<[to |-> "/api/imagen/generate",
                 body |-> [prompt |-> prompt, numberOfImages |-> numberOfImages,
                           aspectRatio |-> aspectRatio]]>>
      failure(e) == [success |-> FALSE, error |-> e, message |-> "Failed to generate images"]
  IN  [st |-> st, calls |-> sent,
       result |->
         IF resp.kind = "throw" THEN failure("fetch failed")
         ELSE IF resp.kind = "notok" THEN failure("Failed to generate image: status")
         ELSE IF st.threw THEN failure("write failed")
         ELSE IF Len(st.generated) > 0
         THEN [success |-> TRUE, imageIds |-> imageIdsOf(st.generated),
               images |-> st.generated, count |-> Len(st.generated),
               message |-> "Generated"]
         ELSE failure("No image data in response")]

GenerateImage(prompt, numberOfImages, aspectRatio, resp) ==
  /\ nextId + Len(bodyPayloads(resp.body)) <= MaxId + 1
  /\ \E fails \in IoFails :
       LET out == generateImageHandler(prompt, numberOfImages, aspectRatio, resp, fails)
       IN  /\ disk' = out.st.disk
           /\ lastOp' = out.st.lastOp
           /\ images' = out.st.images
           /\ nextId' = out.st.nextId
           /\ last' = [action |-> "generate-imagen-image",
                       args |-> [prompt |-> prompt, numberOfImages |-> numberOfImages,
                                 aspectRatio |-> aspectRatio],
                       result |-> out.result, calls |-> out.calls]
  /\ UNCHANGED <<videos, libVars, analytics, sysVars, extVars, nextBlob>>

\* ----------------------------------------------------------- clear-project
RECURSIVE markDeleted(_, _)
markDeleted(ops, imageIds) ==
  IF imageIds = <<>> THEN ops
  ELSE markDeleted([ops EXCEPT ![Head(imageIds)] = [op |-> "delete", data |-> Null]],
                   Tail(imageIds))

\* clearProjectAction.handler: ctx.memory is the video-project memory
ClearProject(confirm) ==
  /\ IF ~confirm
     THEN /\ last' = [action |-> "clear-project", args |-> [confirm |-> confirm],
                      result |-> [success |-> FALSE,
                                  message |-> "Please confirm to clear the project"]]
          /\ UNCHANGED <<projVars, storeVars, activeWorkflows>>
     ELSE \E fails \in IoFails :
            LET imageIds == SelectSeq(imageIdsOf(images), LAMBDA i : i # NoId)
            IN  /\ disk' = clearProjectImages(disk, imageIds, fails)
                /\ lastOp' = markDeleted(lastOp, imageIds)
                /\ videos' = <<>>
                /\ images' = <<>>
                /\ activeWorkflows' = <<>>
                /\ last' = [action |-> "clear-project", args |-> [confirm |-> confirm],
                            result |-> [success |-> TRUE,
                                        message |-> "Project cleared successfully"]]
  /\ UNCHANGED <<libVars, analytics, sysVars, prefVars, inflight, idVars>>

\* ----------------------------------------------------- concurrent requests
\* generate-imagen-image and clear-project as they run on the event loop: a
\* handler runs from one await to the next, and the other request may run in
\* between.  inflight.gen is the generation request, inflight.clr the clear
\* request.

\* generate-imagen-image up to the parsed provider response
GenBegin(prompt, numberOfImages, aspectRatio, resp) ==
  /\ inflight.gen.pc = "idle"
  /\ nextId + Len(bodyPayloads(resp.body)) <= MaxId + 1
  /\ IF resp.kind = "ok"
     THEN /\ inflight' = [inflight EXCEPT !.gen =
                            [pc |-> "save", prompt |-> prompt,
                             queue |-> bodyPayloads(resp.body), generated |-> <<>>]]
          /\ UNCHANGED last
     ELSE /\ last' = [action |-> "generate-imagen-image",
                      result |-> [success |-> FALSE, error |-> resp.kind,
                                  message |-> "Failed to generate images"]]
          /\ UNCHANGED inflight
  /\ UNCHANGED <<projVars, libVars, analytics, storeVars, sysVars, activeWorkflows,
                 prefVars, idVars>>

\* the next entry of the response: skipped when it has no bytes, otherwise a
\* fresh id is drawn and `await saveImage` writes the file
GenSave ==
  /\ inflight.gen.pc = "save"
  /\ inflight.gen.queue # <<>>
  /\ LET g == inflight.gen
         p == Head(g.queue)
     IN  IF p.imageBytes = Null
         THEN /\ inflight' = [inflight EXCEPT !.gen.queue = Tail(@)]
              /\ UNCHANGED <<storeVars, nextId, last>>
         ELSE \E fails \in IoFails :
                /\ nextId' = nextId + 1
                /\ IF nextId \in fails
                   THEN /\ inflight' = [inflight EXCEPT !.gen = [pc |-> "idle"]]
                        /\ last' = [action |-> "generate-imagen-image",
                                    result |-> [success |-> FALSE, error |-> "write failed",
                                                message |-> "Failed to generate images"]]
                        /\ UNCHANGED storeVars
                   ELSE /\ disk' = saveImageDisk(disk, nextId, payloadDataUrl(p))
                        /\ lastOp' = [lastOp EXCEPT ![nextId] =
                                        [op |-> "save", data |-> payloadDataUrl(p)]]
                        /\ inflight' = [inflight EXCEPT !.gen =
                                          [pc |-> "push", prompt |-> g.prompt,
                                           queue |-> Tail(g.queue), generated |-> g.generated,
                                           meta |-> imageMetadata(nextId, g.prompt,
                                                                  ImageUrl(nextId))]]
                        /\ UNCHANGED last
  /\ UNCHANGED <<projVars, libVars, analytics, sysVars, activeWorkflows, prefVars, nextBlob>>

\* the handler resumes after the write: the metadata is pushed
GenPush ==
  /\ inflight.gen.pc = "push"
  /\ LET g == inflight.gen
     IN  /\ images' = Append(images, g.meta)
         /\ inflight' = [inflight EXCEPT !.gen =
                           [pc |-> "save", prompt |-> g.prompt, queue |-> g.queue,
                            generated |-> Append(g.generated, g.meta)]]
  /\ UNCHANGED <<videos, libVars, analytics, storeVars, sysVars, activeWorkflows, prefVars,
                 idVars, last>>

\* the response is exhausted: the handler returns
GenEnd ==
  /\ inflight.gen.pc = "save"
  /\ inflight.gen.queue = <<>>
  /\ LET generated == inflight.gen.generated
     IN  last' = [action |-> "generate-imagen-image",
                  result |->
                    IF Len(generated) > 0
                    THEN [success |-> TRUE, imageIds |-> imageIdsOf(generated),
                          images |-> generated, count |-> Len(generated),
                          message |-> "Generated"]
                    ELSE [success |-> FALSE, error |-> "No image data in response",
                          message |-> "Failed to generate images"]]
  /\ inflight' = [inflight EXCEPT !.gen = [pc |-> "idle"]]
  /\ UNCHANGED <<projVars, libVars, analytics, storeVars, sysVars, activeWorkflows,
                 prefVars, idVars>>

\* clear-project up to the list of image ids it will delete
ClearBegin(confirm) ==
  /\ inflight.clr.pc = "idle"
  /\ IF ~confirm
     THEN /\ last' = [action |-> "clear-project", args |-> [confirm |-> confirm],
                      result |-> [success |-> FALSE,
                                  message |-> "Please confirm to clear the project"]]
          /\ UNCHANGED inflight
     ELSE /\ inflight' = [inflight EXCEPT !.clr =
                            [pc |-> "delete",
                             ids |-> SelectSeq(imageIdsOf(images), LAMBDA i : i # NoId)]]
          /\ UNCHANGED last
  /\ UNCHANGED <<projVars, libVars, analytics, storeVars, sysVars, activeWorkflows,
                 prefVars, idVars>>

\* clearProjectImages: one `await deleteImage`
ClearDelete ==
  /\ inflight.clr.pc = "delete"
  /\ inflight.clr.ids # <<>>
  /\ \E fails \in IoFails :
       LET imageId == Head(inflight.clr.ids)
       IN  /\ disk' = deleteImage(disk, imageId, fails)
           /\ lastOp' = [lastOp EXCEPT ![imageId] = [op |-> "delete", data |-> Null]]
  /\ inflight' = [inflight EXCEPT !.clr.ids = Tail(@)]
  /\ UNCHANGED <<projVars, libVars, analytics, sysVars, activeWorkflows, prefVars, idVars,
                 last>>

\* the files are deleted: the memory is reset and the handler returns
ClearEnd ==
  /\ inflight.clr.pc = "delete"
  /\ inflight.clr.ids = <<>>
  /\ videos' = <<>>
  /\ images' = <<>>
  /\ activeWorkflows' = <<>>
  /\ inflight' = [inflight EXCEPT !.clr = [pc |-> "idle"]]
  /\ last' = [action |-> "clear-project", args |-> [confirm |-> TRUE],
              result |-> [success |-> TRUE, message |-> "Project cleared successfully"]]
  /\ UNCHANGED <<libVars, analytics, storeVars, sysVars, prefVars, idVars>>

NextConcurrent ==
  \/ \E r \in ImageRequests, resp \in ImagenSamples :
       GenBegin(r.prompt, r.numberOfImages, r.aspectRatio, resp)
  \/ GenSave
  \/ GenPush
  \/ GenEnd
  \/ \E confirm \in BOOLEAN : ClearBegin(confirm)
  \/ ClearDelete
  \/ ClearEnd

SpecConcurrent == Init /\ [][NextConcurrent]_vars

\* ---------------------------------------------------- media-library actions
VideoStatuses == {"generating", "ready", "failed"}
CallerUrls == {NoUrl, <<"https://cdn/", 1>>}
\* the operation name a client registers with add-video (the handler only
\* stores the string)
RegisteredOpNames == {"op1"}

\* add-video handler
AddVideo(prompt, operationName) ==
  /\ nextId <= MaxId
  /\ libVideos' = Append(libVideos, newVideo(nextId, prompt, operationName))
  /\ nextId' = nextId + 1
  /\ last' = [action |-> "add-video",
              args |-> [prompt |-> prompt, operationName |-> operationName], result |-> [videoId |-> nextId]]
  /\ UNCHANGED <<projVars, libImages, analytics, storeVars, sysVars, extVars, nextBlob>>

updateVideoStatus(vs, videoId, status, url) ==
  LET i == Find(vs, "id", videoId)
  IN  IF i = 0 THEN vs
      ELSE [vs EXCEPT ![i].status = status, ![i].url = IF url # NoUrl THEN url ELSE @]

\* update-video-status handler
UpdateVideoStatus(videoId, status, url) ==
  /\ libVideos' = updateVideoStatus(libVideos, videoId, status, url)
  /\ last' = [action |-> "update-video-status",
              result |-> [updated |-> Find(libVideos, "id", videoId) # 0]]
  /\ UNCHANGED <<projVars, libImages, analytics, storeVars, sysVars, extVars, idVars>>

\* add-image handler
AddImage(prompt, url) ==
  /\ nextId <= MaxId
  /\ libImages' = Append(libImages, imageMetadata(nextId, prompt, url))
  /\ nextId' = nextId + 1
  /\ last' = [action |-> "add-image", args |-> [prompt |-> prompt, url |-> url], result |-> [imageId |-> nextId]]
  /\ UNCHANGED <<projVars, libVideos, analytics, storeVars, sysVars, extVars, nextBlob>>

\* --------------------------------------------------------------- list-media
MediaTypes == {"all", "videos", "images"}
StatusFilters == {"all", "ready", "generating", "failed"}

\* listMediaAction.handler: reads the project memory, changes nothing
listMedia(type, status) ==
  LET vs == IF status # "all" /\ type # "images"
            THEN SelectSeq(videos, LAMBDA v : v.status = status)
            ELSE videos
      listed == [success |-> TRUE, summary |-> <<Len(vs), Len(images)>>]
      withVideos == IF type \in {"all", "videos"}
                    THEN [videos |-> [i \in 1..Len(vs) |->
                                        [id |-> vs[i].id, prompt |-> vs[i].prompt,
                                         status |-> vs[i].status, url |-> vs[i].url]]]
                    ELSE <<>>
      withImages == IF type \in {"all", "images"}
                    THEN [images |-> [i \in 1..Len(images) |->
                                        [id |-> images[i].id, prompt |-> images[i].prompt,
                                         hasData |-> FALSE]]]
                    ELSE <<>>
  IN  listed @@ withVideos @@ withImages

ListMedia(type, status) ==
  /\ last' = [action |-> "list-media", args |-> [type |-> type, status |-> status],
              result |-> listMedia(type, status)]
  /\ UNCHANGED <<projVars, libVars, analytics, storeVars, sysVars, extVars, idVars>>

\* ----------------------------------------------------------- start-workflow
StepTypes == {"generate-image", "generate-video", "wait", "transform"}
WorkflowNames == {"intro"}

\* a step as the caller sends it: type and params, and possibly a status key
\* of its own
StepInputs == [type : StepTypes, params : {"sunset"}, status : {Undefined, "completed"}]
StepLists == SeqsUpTo(StepInputs, MaxSteps)

\* the workflows the clients of the model start
WorkflowRequests ==
  {<<>>,
   <<[type |-> "generate-image", params |-> "sunset", status |-> Undefined],
     [type |-> "generate-video", params |-> "sunset", status |-> "completed"]>>}

\* variant: a status supplied by the caller is kept
pendingStep_KeepGiven(s) ==
  IF s.status = Undefined THEN [s EXCEPT !.status = "pending"] ELSE s

\* { ...s, status: 'pending' }
pendingStep(s) == [s EXCEPT !.status = "pending"]

newWorkflow(id, name, steps) ==
  [id |-> id, name |-> name, steps |-> [i \in 1..Len(steps) |-> pendingStep(steps[i])]]

\* start-workflow handler
StartWorkflow(name, steps) ==
  /\ nextId <= MaxId
  /\ activeWorkflows' = Append(activeWorkflows, newWorkflow(nextId, name, steps))
  /\ nextId' = nextId + 1
  /\ last' = [action |-> "start-workflow", args |-> [name |-> name, steps |-> steps],
              result |-> [workflowId |-> nextId, message |-> <<"created", Len(steps)>>]]
  /\ UNCHANGED <<projVars, libVars, analytics, storeVars, sysVars, prefVars, inflight,
                 nextBlob>>

\* ------------------------------------------------------ preferences actions
PreferenceRatios == {"16:9", "9:16", "1:1"}
Styles == {"noir"}

\* the parameters of update-video-preferences: an absent key is Undefined
PreferenceParams ==
  [aspectRatio : {Undefined} \cup PreferenceRatios, model : {Undefined, Veo2Model},
   negativePrompt : NegativePrompts, style : {Undefined} \cup Styles]

\* Object.assign(target, params): the keys present in params are copied
objectAssign(target, params) ==
  [k \in DOMAIN target |->
     IF k \in DOMAIN params /\ params[k] # Undefined THEN params[k] ELSE target[k]]

\* update-video-preferences handler
UpdateVideoPreferences(params) ==
  /\ videoSettings' = objectAssign(videoSettings, params)
  /\ last' = [action |-> "update-video-preferences", args |-> params,
              result |-> [updated |-> TRUE, preferences |-> videoSettings']]
  /\ UNCHANGED <<projVars, libVars, analytics, storeVars, sysVars, activeWorkflows,
                 workflowTemplates, inflight, idVars>>

\* save-workflow-template handler
SaveWorkflowTemplate(name, steps) ==
  /\ Len(workflowTemplates) < MaxTemplates
  /\ workflowTemplates' = Append(workflowTemplates, [name |-> name, steps |-> steps])
  /\ last' = [action |-> "save-workflow-template", args |-> [name |-> name, steps |-> steps],
              result |-> [saved |-> TRUE, templateCount |-> Len(workflowTemplates')]]
  /\ UNCHANGED <<projVars, libVars, analytics, storeVars, sysVars, activeWorkflows,
                 videoSettings, inflight, idVars>>

NextPreferences ==
  \/ \E params \in PreferenceParams : UpdateVideoPreferences(params)
  \/ \E name \in WorkflowNames, steps \in WorkflowRequests : SaveWorkflowTemplate(name, steps)

SpecPreferences == Init /\ [][NextPreferences]_vars

\* ------------------------------------------------------- the action surface
Next ==
  \/ \E a \in VideoRequests, resp \in VeoResponses : GenerateVideo(a, resp)
  \/ \E operationName \in OpNames, outcome \in PollOutcomes :
       CheckVideoStatus(operationName, outcome)
  \/ \E r \in ImageRequests, resp \in ImagenSamples :
       GenerateImage(r.prompt, r.numberOfImages, r.aspectRatio, resp)
  \/ \E confirm \in BOOLEAN : ClearProject(confirm)
  \/ \E prompt \in Prompts, operationName \in RegisteredOpNames :
       AddVideo(prompt, operationName)
  \/ \E videoId \in FileIds, status \in VideoStatuses, url \in CallerUrls :
       UpdateVideoStatus(videoId, status, url)
  \/ \E prompt \in Prompts, url \in CallerUrls \ {NoUrl} : AddImage(prompt, url)

Spec == Init /\ [][Next]_vars

\* the client keeps polling: a poll that meets the finished job with its
\* artifact is not postponed forever
SpecPolling ==
  Spec /\ \A operationName \in OpNames : WF_vars(CheckVideoStatus(operationName, "download_ok"))

\* the actions whose ctx.memory is the video-project memory
NextProject ==
  \/ \E a \in VideoRequests, resp \in VeoResponses : GenerateVideo(a, resp)
  \/ \E operationName \in OpNames, outcome \in PollOutcomes :
       CheckVideoStatus(operationName, outcome)
  \/ \E r \in ImageRequests, resp \in ImagenSamples :
       GenerateImage(r.prompt, r.numberOfImages, r.aspectRatio, resp)
  \/ \E confirm \in BOOLEAN : ClearProject(confirm)

SpecProject == Init /\ [][NextProject]_vars

\* the project actions together with the workflow and listing actions of the
\* same context
NextWorkflow ==
  \/ NextProject
  \/ \E name \in WorkflowNames, steps \in WorkflowRequests : StartWorkflow(name, steps)
  \/ \E type \in {"all", "videos"}, status \in {"all", "ready"} : ListMedia(type, status)

SpecWorkflow == Init /\ [][NextWorkflow]_vars

\* ================================================================== claims
Rejected(out, code) ==
  /\ ~out.result.success
  /\ out.result.error = code
  /\ out.calls = <<>>
  /\ out.videos = videos

\* the request passed the validation: the generation endpoint was called
Accepted(out) ==
  /\ out.calls # <<>>
  /\ out.calls[Len(out.calls)].to = "/api/veo/generate"

\* C1: for either veo-3.0 model and aspectRatio 9:16, whatever the other
\* parameters, generate-veo-video fails with INVALID_ASPECT_RATIO, makes no
\* outbound call (no image load, no generation request) and adds no video.
C1_AspectRatioRejected ==
  \A a \in VideoArgsOf(Veo3Models, {"9:16"}, PersonGenerations, {1, 2}),
     resp \in VeoResponses, fails \in IoFails :
    Rejected(generateVideoHandler(a, resp, fails), "INVALID_ASPECT_RATIO")

C1_Witness ==
  /\ last.action = "generate-veo-video"
  /\ ~last.result.success
  /\ last.result.error = "INVALID_ASPECT_RATIO"

\* C2 as stated: for either veo-3.0 model, a request without image source and
\* with personGeneration allow_adult or dont_allow is rejected with
\* INVALID_PERSON_GENERATION before any outbound call, and with an image
\* source it passes the validation.
C2_Original ==
  (/\ last.action = "generate-veo-video"
   /\ isVeo3(last.args.model)
   /\ last.args.personGeneration \in {"allow_adult", "dont_allow"}) =>
    IF hasImageSource(last.args)
    THEN Accepted(last)
    ELSE /\ ~last.result.success
         /\ last.result.error = "INVALID_PERSON_GENERATION"
         /\ last.calls = <<>>

\* C2 as amended: such a request without image source is rejected before any
\* outbound call, with INVALID_PERSON_GENERATION when its aspectRatio is 16:9
\* and with INVALID_ASPECT_RATIO when it is 9:16; with an image source,
\* aspectRatio 16:9 and numberOfVideos 1 it passes the validation.
C2_PersonGeneration ==
  \A a \in VideoArgsOf(Veo3Models, AspectRatios, {"allow_adult", "dont_allow"}, {1, 2}),
     resp \in VeoResponses, fails \in IoFails :
    LET out == generateVideoHandler(a, resp, fails)
    IN  /\ ~hasImageSource(a) =>
             Rejected(out, IF a.aspectRatio = "16:9" THEN "INVALID_PERSON_GENERATION"
                           ELSE "INVALID_ASPECT_RATIO")
        /\ (hasImageSource(a) /\ a.aspectRatio = "16:9" /\ a.numberOfVideos = 1) =>
             Accepted(out)

C2_Witness ==
  /\ last.action = "generate-veo-video"
  /\ ~last.result.success
  /\ last.result.error = "INVALID_PERSON_GENERATION"
  /\ last.calls = <<>>

\* C3 as stated: numberOfVideos 2 passes the validation for veo-2.0 and is
\* rejected with INVALID_NUMBER_OF_VIDEOS, without outbound call, for either
\* veo-3.0 model.
C3_Original ==
  (last.action = "generate-veo-video" /\ last.args.numberOfVideos = 2) =>
    IF isVeo2(last.args.model)
    THEN Accepted(last)
    ELSE /\ ~last.result.success
         /\ last.result.error = "INVALID_NUMBER_OF_VIDEOS"
         /\ last.calls = <<>>

\* C3 as amended: numberOfVideos 2 passes the validation for veo-2.0 (the
\* request sent carries numberOfVideos 2); for either veo-3.0 model it is
\* rejected without outbound call, with INVALID_NUMBER_OF_VIDEOS when the
\* request meets the aspect-ratio and person-generation constraints and with
\* the error of the first of these it violates otherwise.
C3_NumberOfVideos ==
  \A a \in VideoArgsOf(Models, AspectRatios, PersonGenerations, {2}),
     resp \in VeoResponses, fails \in IoFails :
    LET out == generateVideoHandler(a, resp, fails)
    IN  IF isVeo2(a.model)
        THEN /\ Accepted(out)
             /\ out.calls[Len(out.calls)].form.numberOfVideos = "2"
        ELSE Rejected(out,
               IF a.aspectRatio = "9:16" THEN "INVALID_ASPECT_RATIO"
               ELSE IF ~hasImageSource(a) /\ a.personGeneration \in {"allow_adult", "dont_allow"}
                    THEN "INVALID_PERSON_GENERATION"
               ELSE "INVALID_NUMBER_OF_VIDEOS")

C3_Witness ==
  /\ last.action = "generate-veo-video"
  /\ ~last.result.success
  /\ last.result.error = "INVALID_NUMBER_OF_VIDEOS"

\* C6: after clear-project with confirm=true the videos and images of the
\* project container and of the media-library container are empty and no
\* image file of the project remains on disk.
C6_ClearEmptiesAll ==
  (last.action = "clear-project" /\ last.result.success) =>
    /\ videos = <<>> /\ images = <<>>
    /\ libVideos = <<>> /\ libImages = <<>>
    /\ \A i \in FileIds : disk[i] = NoFile

\* the entries of a response that carry image bytes
WithBytes(ps) == SelectSeq(ps, LAMBDA p : p.imageBytes # Null)

Distinct(ids) == \A i, j \in 1..Len(ids) : i # j => ids[i] # ids[j]

Terminal(v) == v.status \in {"ready", "failed"}

KeepsTerminal(before, after) ==
  \A i \in 1..Len(before) :
    (i <= Len(after) /\ Terminal(before[i])) => after[i].status = before[i].status

\* C8: in every container, once a video record's status is ready or failed,
\* no action changes it again.
C8_TerminalStatusStable ==
  [][KeepsTerminal(videos, videos') /\ KeepsTerminal(libVideos, libVideos')]_vars

\* C9: when check-video-status reports status failed (the operation is done
\* but there is no uri or the download is refused), the video record holding
\* that operation handle has status failed afterwards.
C9_FailedPollRecorded ==
  (/\ last.action = "check-video-status"
   /\ "status" \in DOMAIN last.result
   /\ last.result.status = "failed") =>
    \A i \in 1..Len(videos) :
      videos[i].operationName = last.args.operationName => videos[i].status = "failed"

idsOf(records) == [i \in 1..Len(records) |-> records[i].id]

DispatchActions ==
  {"generate-veo-video", "check-video-status", "generate-imagen-image", "list-media",
   "clear-project", "start-workflow", "track-generation", "update-video-preferences",
   "save-workflow-template", "add-video", "update-video-status", "add-image"}

\* a result with success=true, or of shape {success:false, error, message}
UniformResult(r) ==
  /\ "success" \in DOMAIN r
  /\ \/ r.success = TRUE
     \/ r.success = FALSE /\ {"error", "message"} \subseteq DOMAIN r

\* C11: every action of the dispatch surface returns either a result with
\* success=true or a result of shape {success:false, error, message} (an
\* exception escaping a handler would leave no result at all).
C11_UniformResults ==
  last.action \in DispatchActions => UniformResult(last.result)

Containers ==
  <<videos, images, activeWorkflows, libVideos, libImages, analytics, videoSettings,
    workflowTemplates>>

\* the step repeats the call before it: same action, same parameters
Retry ==
  /\ last.action \in DispatchActions
  /\ last'.action = last.action
  /\ "args" \in DOMAIN last
  /\ last'.args = last.args

\* C12: invoking an action other than track-generation a second time in
\* succession with the same parameters leaves the state containers as the
\* first invocation left them, while a repeated track-generation changes the
\* analytics container again.
C12_IdempotentRetry ==
  [][Retry => IF last.action = "track-generation"
              THEN analytics' # analytics
              ELSE Containers' = Containers]_vars

StoreOperations == {"saveImage", "loadImage", "deleteImage", "clearProjectImages"}

\* C13: no media store operation (saveImage, loadImage, deleteImage,
\* clearProjectImages) propagates an I/O error to its caller: when the file
\* operation fails the operation returns, it does not throw.
C13_StoreNeverThrows ==
  last.action \in StoreOperations => ~last.threw

\* C15: each track-generation call appends exactly one event to the end of
\* the analytics event log, leaving every earlier event as it was, and
\* totalVideos, totalImages and estimatedCost never decrease.
C15_AppendOnlyLog ==
  [][last'.action = "track-generation" =>
       /\ Len(analytics'.events) = Len(analytics.events) + 1
       /\ SubSeq(analytics'.events, 1, Len(analytics.events)) = analytics.events
       /\ analytics'.events[Len(analytics'.events)].data.success = last'.args.success
       /\ analytics'.costs.totalVideos >= analytics.costs.totalVideos
       /\ analytics'.costs.totalImages >= analytics.costs.totalImages
       /\ analytics'.costs.estimatedCost >= analytics.costs.estimatedCost]_vars

C15_Witness ==
  /\ last.action = "track-generation"
  /\ Len(analytics.events) = MaxEvents
  /\ analytics.costs.totalVideos >= 1
  /\ analytics.costs.totalImages >= 1
  /\ ~analytics.events[MaxEvents].data.success

\* some video record, of the project or of the media library, holds the
\* handle and is still generating
Generating(h) ==
  \/ \E i \in 1..Len(videos) : videos[i].operationName = h /\ videos[i].status = "generating"
  \/ \E i \in 1..Len(libVideos) :
       libVideos[i].operationName = h /\ libVideos[i].status = "generating"

\* the step is a poll of handle h that observed completion
ObservedDone(h) ==
  /\ last'.action = "check-video-status"
  /\ last'.args.operationName = h
  /\ last'.result.success
  /\ last'.result.status = "ready"

BecomesReady(before, after) ==
  {i \in 1..Len(before) : i <= Len(after) /\ after[i].id = before[i].id
                           /\ before[i].status # "ready" /\ after[i].status = "ready"}

\* C16: under weak fairness of the completed poll, every video record in
\* status generating eventually leaves that status (or no object URL is left
\* for a further poll); a poll of a handle that observes completion leaves no
\* record with that handle generating; and a record only becomes ready in a
\* poll of its handle that observed completion.
C16_PollingCompletes ==
  /\ \A h \in OpNames : Generating(h) ~> (~Generating(h) \/ nextBlob > MaxBlobs)
  /\ [][\A h \in OpNames : ObservedDone(h) => ~Generating(h)']_vars
  /\ [][/\ \A i \in BecomesReady(videos, videos') : ObservedDone(videos[i].operationName)
        /\ \A i \in BecomesReady(libVideos, libVideos') :
             ObservedDone(libVideos[i].operationName)]_vars

\* every image record has its file, and every file has its image record
RecordsMatchFiles ==
  /\ \A i \in 1..Len(images) : disk[images[i].id] # NoFile
  /\ \A f \in FileIds : disk[f] # NoFile => \E i \in 1..Len(images) : images[i].id = f

\* C17: under any interleaving of generate-imagen-image and clear-project
\* requests on the same project, once all requests have completed every image
\* record has its file on disk and every generated image file on disk has its
\* image record.
C17_NoDanglingNoOrphan ==
  inflight = Idle => RecordsMatchFiles

\* what the handler does to the project's videos when the job is done and
\* downloaded, and when it is still running
PollFrame ==
  \A h \in OpNames :
    LET done == checkVideoStatusHandler(h, "download_ok")
        running == checkVideoStatusHandler(h, "processing")
        first == Find(videos, "operationName", h)
    IN  /\ done.result.success
        /\ done.result.status = "ready"
        /\ done.result.url # NoUrl
        /\ Len(done.videos) = Len(videos)
        /\ \A i \in 1..Len(videos) :
             IF i = first
             THEN /\ videos[i].operationName = h
                  /\ \A k \in 1..(i - 1) : videos[k].operationName # h
                  /\ done.videos[i] =
                       [videos[i] EXCEPT !.status = "ready", !.url = done.result.url]
             ELSE done.videos[i] = videos[i]
        /\ running.result.success
        /\ running.result.status = "processing"
        /\ running.videos = videos

\* C18: when check-video-status meets the operation done and the download
\* succeeds, it returns status ready with a url and sets status ready and
\* that url on the first video record holding the polled handle, every other
\* video record (and every other field of that one) staying as it was; when
\* the operation is not done it returns status processing and changes no
\* record.  No poll changes a record of the media library or an image.
C18_ReadyFrame ==
  /\ []PollFrame
  /\ [][last'.action = "check-video-status" =>
          /\ libVideos' = libVideos
          /\ images' = images /\ libImages' = libImages
          /\ (last'.result.success /\ last'.result.status = "processing") =>
               videos' = videos]_vars

C18_Witness ==
  /\ last.action = "check-video-status"
  /\ last.result.success
  /\ last.result.status = "ready"
  /\ Len(videos) = 2
  /\ videos[1].operationName = last.args.operationName
  /\ videos[2].operationName = last.args.operationName
  /\ videos[1].status = "ready"
  /\ videos[1].url = last.result.url
  /\ videos[2].status = "generating"

\* C19: every generation request that generate-veo-video sends for a
\* veo-3.0 model with personGeneration allow_adult or dont_allow carries
\* starting-image data (imageBase64), whatever the image parameters and the
\* stored images.
C19_RestrictedNeedsImage ==
  (/\ last.action = "generate-veo-video"
   /\ isVeo3(last.args.model)
   /\ last.args.personGeneration \in {"allow_adult", "dont_allow"}) =>
    \A k \in 1..Len(last.calls) :
      last.calls[k].to = "/api/veo/generate" => last.calls[k].form.imageBase64 # Null

\* C20: when generate-veo-video returns success it has appended exactly one
\* video record to the project's videos, with status generating and the
\* operation handle the provider returned; when it returns a failure
\* (validation failure, refused or failed provider request) the videos are
\* as they were.  The parameters range over a veo-3.0 and the veo-2.0 model
\* with every verdict of the validation and every image source.
C20_VideoRecorded ==
  \A a \in VideoArgsOf({"veo-3.0-fast-generate-preview", Veo2Model}, AspectRatios,
                       {Undefined, "allow_adult"}, {1, 2}),
     resp \in VeoResponses, fails \in IoFails :
    LET out == generateVideoHandler(a, resp, fails)
    IN  /\ (validateVideo(a) # "ok" \/ resp.kind # "ok") => ~out.result.success
        /\ IF out.result.success
           THEN /\ Len(out.videos) = Len(videos) + 1
                /\ SubSeq(out.videos, 1, Len(videos)) = videos
                /\ out.videos[Len(out.videos)].status = "generating"
                /\ out.videos[Len(out.videos)].operationName = resp.name
                /\ out.videos[Len(out.videos)].id = out.result.videoId
                /\ out.result.operationName = resp.name
           ELSE out.videos = videos

C20_Witness ==
  /\ last.action = "generate-veo-video"
  /\ last.result.success
  /\ Len(videos) = 2
  /\ videos[2].status = "generating"
  /\ videos[2].operationName = last.result.operationName
  /\ videos[2].operationName \in OpNames

\* C21: generate-veo-video returns success, and records a video, only when
\* the provider's response carries an operation handle: no successful result
\* is without a handle and no video record of the project is without one.
C21_HandleRequired ==
  /\ (last.action = "generate-veo-video" /\ last.result.success) =>
       last.result.operationName # Undefined
  /\ \A i \in 1..Len(videos) : videos[i].operationName # Undefined

\* ------------------------------------------------ DELETE /api/agent/memory
\* the context query parameter: absent, empty, the two contexts the route
\* knows and one it does not
NoParam == "(absent)"
ContextTypes == {NoParam, "", "analytics", "media", "project"}

\* variant: the reset empties the event log and keeps the aggregates
clearedAnalytics_KeepCosts ==
  [createAnalytics EXCEPT !.costs = analytics.costs]

\* the value the route writes into the veo-analytics memory
clearedAnalytics ==
  [events |-> <<>>,
   costs |-> [totalVideos |-> 0, totalImages |-> 0, estimatedCost |-> 0],
   performance |-> [averageVideoTime |-> [num |-> 0, den |-> 1]]]

\* variant: the media reset empties the project's collections too
deleteContext_MediaClearsProject(contextType) ==
  IF contextType = "analytics"
  THEN [status |-> 200, analytics |-> clearedAnalytics, libVideos |-> libVideos,
        libImages |-> libImages, videos |-> videos, images |-> images]
  ELSE IF contextType = "media"
  THEN [status |-> 200, analytics |-> analytics, libVideos |-> <<>>, libImages |-> <<>>,
        videos |-> <<>>, images |-> <<>>]
  ELSE [status |-> 400, analytics |-> analytics, libVideos |-> libVideos,
        libImages |-> libImages, videos |-> videos, images |-> images]

\* the switch on a given context type: response status and memories afterwards
deleteContext(contextType) ==
  IF contextType = "analytics"
  THEN [status |-> 200, analytics |-> clearedAnalytics, libVideos |-> libVideos,
        libImages |-> libImages, videos |-> videos, images |-> images]
  ELSE IF contextType = "media"
  THEN [status |-> 200, analytics |-> analytics, libVideos |-> <<>>, libImages |-> <<>>,
        videos |-> videos, images |-> images]
  ELSE [status |-> 400, analytics |-> analytics, libVideos |-> libVideos,
        libImages |-> libImages, videos |-> videos, images |-> images]

\* what clear-project with confirm does to the project memory and the files
ClearConfirmed(fails) ==
  LET imageIds == SelectSeq(imageIdsOf(images), LAMBDA i : i # NoId)
  IN  /\ disk' = clearProjectImages(disk, imageIds, fails)
      /\ lastOp' = markDeleted(lastOp, imageIds)
      /\ videos' = <<>>
      /\ images' = <<>>
      /\ activeWorkflows' = <<>>

\* DELETE handler; without a context type it runs clear-project with confirm
DeleteMemory(contextType) ==
  /\ IF contextType \in {NoParam, ""}
     THEN /\ \E fails \in IoFails : ClearConfirmed(fails)
          /\ last' = [action |-> "DELETE /api/agent/memory",
                      args |-> [context |-> contextType],
                      result |-> [success |-> TRUE, status |-> 200]]
          /\ UNCHANGED <<libVars, analytics>>
     ELSE LET out == deleteContext(contextType)
          IN  /\ analytics' = out.analytics
              /\ libVideos' = out.libVideos
              /\ libImages' = out.libImages
              /\ videos' = out.videos
              /\ images' = out.images
              /\ last' = [action |-> "DELETE /api/agent/memory",
                          args |-> [context |-> contextType],
                          result |-> [success |-> out.status = 200, status |-> out.status]]
              /\ UNCHANGED <<storeVars, activeWorkflows>>
  /\ UNCHANGED <<sysVars, prefVars, inflight, idVars>>

NextAnalyticsReset ==
  \/ NextAnalytics
  \/ \E contextType \in ContextTypes : DeleteMemory(contextType)

SpecAnalyticsReset == Init /\ [][NextAnalyticsReset]_vars

\* successful events of one type in the log
Successes(events, type) ==
  Cardinality({i \in 1..Len(events) : events[i].type = type /\ events[i].data.success})

AggregatesAgree ==
  /\ analytics.costs.estimatedCost =
       VideoCost * analytics.costs.totalVideos + ImageCost * analytics.costs.totalImages
  /\ analytics.costs.totalVideos = Successes(analytics.events, "video_generated")
  /\ analytics.costs.totalImages = Successes(analytics.events, "image_generated")

\* C22: in every state reached by track-generation calls and analytics
\* resets, estimatedCost = 50*totalVideos + 10*totalImages, totalVideos and
\* totalImages count the logged successful video and image events, and a
\* failed event changes no aggregate.
C22_AggregatesAgree ==
  /\ []AggregatesAgree
  /\ [][(last'.action = "track-generation" /\ ~last'.args.success) =>
          /\ analytics'.costs = analytics.costs
          /\ analytics'.performance = analytics.performance]_vars

C22_Witness ==
  /\ last.action = "track-generation"
  /\ ~last.args.success
  /\ Len(analytics.events) = 3
  /\ analytics.costs.totalVideos = 1
  /\ analytics.costs.totalImages = 1
  /\ analytics.costs.estimatedCost = VideoCost + ImageCost

\* ------------------------------------------------------------- HTTP routes
\* A JSON field is Undefined when the body lacks it; !x holds of an absent
\* and of an empty string.  An array is truthy even when empty, so a list
\* travels with a flag telling whether the body carries it.
Falsy(x) == x \in {Undefined, ""}

memoryVars ==
  <<videos, images, libVideos, libImages, analytics, disk, lastOp, activeWorkflows,
    videoSettings, workflowTemplates>>

\* the response of a route: what it answered and whether getAgent was called
Respond(route, args, agent, result) ==
  last' = [action |-> route, args |-> args, agent |-> agent, result |-> result]

BadRequest == [success |-> FALSE, status |-> 400]
ServerError == [success |-> FALSE, status |-> 500]

\* the workflow / template object of a request body
NamedSteps ==
  {w \in [given : BOOLEAN, name : {Undefined, "", "intro"},
          steps : [given : BOOLEAN, list : WorkflowRequests]] :
     /\ ~w.given => (w.name = Undefined /\ ~w.steps.given)
     /\ ~w.steps.given => w.steps.list = <<>>}

\* variant: only the name is required
hasNameAndSteps_NameOnly(w) == w.given /\ ~Falsy(w.name)

\* !(!w || !w.name || !w.steps)
hasNameAndSteps(w) == w.given /\ ~Falsy(w.name) /\ w.steps.given

\* POST /api/agent/workflow
PostWorkflow(workflow) ==
  IF ~hasNameAndSteps(workflow)
  THEN /\ Respond("POST /api/agent/workflow", workflow, FALSE, BadRequest)
       /\ UNCHANGED <<memoryVars, sysVars, inflight, idVars>>
  ELSE IF ~workflow.steps.given
  THEN \* steps.map of start-workflow throws on a missing list
       /\ Respond("POST /api/agent/workflow", workflow, TRUE, ServerError)
       /\ UNCHANGED <<memoryVars, sysVars, inflight, idVars>>
  ELSE /\ nextId <= MaxId
       /\ activeWorkflows' =
            Append(activeWorkflows, newWorkflow(nextId, workflow.name, workflow.steps.list))
       /\ nextId' = nextId + 1
       /\ Respond("POST /api/agent/workflow", workflow, TRUE,
                  [success |-> TRUE, status |-> 200, workflowId |-> nextId])
       /\ UNCHANGED <<projVars, libVars, analytics, storeVars, sysVars, prefVars, inflight,
                      nextBlob>>

\* PUT /api/agent/workflow
PutWorkflow(template) ==
  IF ~hasNameAndSteps(template)
  THEN /\ Respond("PUT /api/agent/workflow", template, FALSE, BadRequest)
       /\ UNCHANGED <<memoryVars, sysVars, inflight, idVars>>
  ELSE /\ Len(workflowTemplates) < MaxTemplates
       /\ workflowTemplates' =
            Append(workflowTemplates,
                   [name |-> template.name,
                    steps |-> IF template.steps.given THEN template.steps.list
                              ELSE <<>>])
       /\ Respond("PUT /api/agent/workflow", template, TRUE,
                  [success |-> TRUE, status |-> 200,
                   templateCount |-> Len(workflowTemplates')])
       /\ UNCHANGED <<projVars, libVars, analytics, storeVars, sysVars, activeWorkflows,
                      videoSettings, inflight, idVars>>

\* POST /api/agent/chat: the agent answers the text with no action or with
\* one generate-veo-video call
ChatMessages == {Undefined, "", "make a video"}

PostChat(message) ==
  IF Falsy(message)
  THEN /\ Respond("POST /api/agent/chat", [message |-> message], FALSE, BadRequest)
       /\ UNCHANGED <<memoryVars, sysVars, inflight, idVars>>
  ELSE \/ /\ Respond("POST /api/agent/chat", [message |-> message], TRUE,
                     [success |-> TRUE, status |-> 200])
          /\ UNCHANGED <<memoryVars, sysVars, inflight, idVars>>
       \/ /\ nextId <= MaxId
          /\ \E resp \in VeoResponses, fails \in IoFails :
               LET out == generateVideoHandler(DefaultVideoArgs, resp, fails)
               IN  /\ videos' = out.videos
                   /\ nextId' = out.nextId
          /\ Respond("POST /api/agent/chat", [message |-> message], TRUE,
                     [success |-> TRUE, status |-> 200])
          /\ UNCHANGED <<images, libVars, analytics, storeVars, sysVars, extVars, nextBlob>>

\* PATCH /api/agent/memory: Object.assign(contextState.memory, updates), for
\* updates that carry an empty videos list or nothing
PatchBodies ==
  [projectId : {Undefined, "", "default"}, userId : {Undefined, "default-user"},
   contextType : {Undefined, "media"}, updates : {Undefined, "videos"}]

PatchMemory(body) ==
  IF Falsy(body.projectId) \/ Falsy(body.userId)
  THEN /\ Respond("PATCH /api/agent/memory", body, FALSE, BadRequest)
       /\ UNCHANGED <<memoryVars, sysVars, inflight, idVars>>
  ELSE /\ Respond("PATCH /api/agent/memory", body, TRUE, [success |-> TRUE, status |-> 200])
       /\ IF body.updates = Undefined
          THEN UNCHANGED <<videos, libVideos>>
          ELSE IF body.contextType = "media"
          THEN libVideos' = <<>> /\ UNCHANGED videos
          ELSE videos' = <<>> /\ UNCHANGED libVideos
       /\ UNCHANGED <<images, libImages, analytics, storeVars, sysVars, extVars, idVars>>

\* POST /api/agent/action.  The route dispatches by name; of the names it
\* lists, execute-workflow-step has no action behind it, and agent.send then
\* either throws or returns no action_call entry.
RouteActionNames ==
  {Undefined, "", "clear-project", "generate-veo-video", "execute-workflow-step"}
RouteVideoRequests ==
  {DefaultVideoArgs,
   [DefaultVideoArgs EXCEPT !.model = "veo-3.0-fast-generate-preview", !.aspectRatio = "9:16"]}
UnknownOutcomes == {"throw", "no_result"}

\* variant: the response repeats the success flag of the action result
actionResponse_Forward(result) ==
  [success |-> IF "success" \in DOMAIN result THEN result.success ELSE TRUE,
   status |-> 200, result |-> result]

\* { success: true, result: actionResult.result, ... }
actionResponse(result) == [success |-> TRUE, status |-> 200, result |-> result]

\* the bodies sent: the keys of params an action does not read are left at a
\* fixed value
ActionBodies ==
  {b \in [actionName : RouteActionNames, confirm : BOOLEAN, video : RouteVideoRequests] :
     /\ b.actionName # "clear-project" => ~b.confirm
     /\ b.actionName # "generate-veo-video" => b.video = DefaultVideoArgs}

PostAction(body) ==
  IF Falsy(body.actionName)
  THEN /\ Respond("POST /api/agent/action", body, FALSE, BadRequest)
       /\ UNCHANGED <<memoryVars, sysVars, inflight, idVars>>
  ELSE IF body.actionName = "clear-project"
  THEN /\ IF body.confirm
          THEN /\ \E fails \in IoFails : ClearConfirmed(fails)
               /\ Respond("POST /api/agent/action", body, TRUE,
                          actionResponse([success |-> TRUE,
                                          message |-> "Project cleared successfully"]))
          ELSE /\ Respond("POST /api/agent/action", body, TRUE,
                          actionResponse([success |-> FALSE,
                                          message |-> "Please confirm to clear the project"]))
               /\ UNCHANGED <<projVars, storeVars, activeWorkflows>>
       /\ UNCHANGED <<libVars, analytics, sysVars, prefVars, inflight, idVars>>
  ELSE IF body.actionName = "generate-veo-video"
  THEN /\ nextId <= MaxId
       /\ \E resp \in VeoResponses, fails \in IoFails :
            LET out == generateVideoHandler(body.video, resp, fails)
            IN  /\ videos' = out.videos
                /\ nextId' = out.nextId
                /\ Respond("POST /api/agent/action", body, TRUE, actionResponse(out.result))
       /\ UNCHANGED <<images, libVars, analytics, storeVars, sysVars, extVars, nextBlob>>
  ELSE /\ \E outcome \in UnknownOutcomes :
            IF outcome = "throw"
            THEN Respond("POST /api/agent/action", body, TRUE, ServerError)
            ELSE Respond("POST /api/agent/action", body, TRUE, actionResponse([raw |-> TRUE]))
       /\ UNCHANGED <<memoryVars, sysVars, inflight, idVars>>

NextRoutes ==
  \/ \E body \in ActionBodies : PostAction(body)
  \/ \E message \in ChatMessages : PostChat(message)
  \/ \E workflow \in NamedSteps : PostWorkflow(workflow)
  \/ \E template \in NamedSteps : PutWorkflow(template)
  \/ \E body \in PatchBodies : PatchMemory(body)

SpecRoutes == Init /\ [][NextRoutes]_vars

Routes ==
  {"POST /api/agent/action", "POST /api/agent/chat", "POST /api/agent/workflow",
   "PUT /api/agent/workflow", "PATCH /api/agent/memory"}

\* the request lacks a field the route requires
LacksRequired(route, args) ==
  CASE route = "POST /api/agent/action" -> Falsy(args.actionName)
    [] route = "POST /api/agent/chat" -> Falsy(args.message)
    [] route \in {"POST /api/agent/workflow", "PUT /api/agent/workflow"} ->
         ~args.given \/ Falsy(args.name) \/ ~args.steps.given
    [] route = "PATCH /api/agent/memory" -> Falsy(args.projectId) \/ Falsy(args.userId)

\* C23: a request that lacks the required field of its route (actionName,
\* message, workflow or template name and steps, projectId and userId) is
\* answered with success = false, without a call of the agent and without a
\* change of any container or file.
C23_RoutesValidate ==
  [][(last'.action \in Routes /\ LacksRequired(last'.action, last'.args)) =>
       /\ ~last'.result.success
       /\ ~last'.agent
       /\ Containers' = Containers
       /\ disk' = disk]_vars

C23_Witness ==
  /\ last.action = "POST /api/agent/workflow"
  /\ last.args.given
  /\ last.args.name = "intro"
  /\ ~last.args.steps.given
  /\ last.result.status = 400
  /\ Len(activeWorkflows) = 1

\* the memory route on a project that holds generated images with their
\* files, videos, library records and tracked events
NextMemoryRoute ==
  \/ \E r \in ImageRequests, resp \in ImagenSamples :
       GenerateImage(r.prompt, r.numberOfImages, r.aspectRatio, resp)
  \/ \E resp \in VeoResponses : GenerateVideo(DefaultVideoArgs, resp)
  \/ \E prompt \in Prompts, operationName \in RegisteredOpNames :
       AddVideo(prompt, operationName)
  \/ \E prompt \in Prompts, url \in CallerUrls \ {NoUrl} : AddImage(prompt, url)
  \/ \E type \in {"video", "image"} : TrackGeneration(type, TRUE, 1)
  \/ \E contextType \in ContextTypes : DeleteMemory(contextType)

SpecMemoryRoute == Init /\ [][NextMemoryRoute]_vars

\* C24: DELETE /api/agent/memory with context=analytics resets the analytics
\* container to its initial value and nothing else; with context=media it
\* empties the media-library container and leaves the project's videos and
\* images and the image files as they are; with any other non-empty context
\* it answers 400 and leaves every container unchanged.
C24_DeleteFrame ==
  [][last'.action = "DELETE /api/agent/memory" =>
       CASE last'.args.context = "analytics" ->
              /\ last'.result.success
              /\ analytics' = createAnalytics
              /\ UNCHANGED <<projVars, activeWorkflows, libVars, prefVars, disk>>
         [] last'.args.context = "media" ->
              /\ last'.result.success
              /\ libVideos' = <<>> /\ libImages' = <<>>
              /\ UNCHANGED <<projVars, activeWorkflows, analytics, prefVars, disk>>
         [] last'.args.context \in {NoParam, ""} -> TRUE
         [] OTHER ->
              /\ ~last'.result.success
              /\ last'.result.status = 400
              /\ Containers' = Containers
              /\ disk' = disk]_vars

C24_Witness ==
  /\ last.action = "DELETE /api/agent/memory"
  /\ last.args.context = "media"
  /\ libVideos = <<>> /\ libImages = <<>>
  /\ Len(images) = 1
  /\ images[1].id # NoId
  /\ disk[images[1].id] # NoFile
  /\ Len(videos) = 1

\* ------------------------------------------------------------ context keys
\* userId and projectId are strings; the hyphen is a character like any other
NameChars == {"a", "-"}
Names == SeqsUpTo(NameChars, MaxName) \ {<<>>}

\* videoProjectContext.key
contextKey(userId, projectId) == userId \o <<"-">> \o projectId

\* the videos of the context with a key; create() gives a context none
memoryOf(cs, key) == IF key \in DOMAIN cs THEN cs[key] ELSE <<>>

\* an action sent for (userId, projectId) that pushes a record into the
\* videos of ctx.memory; the record remembers the pair it was made for
SendToProject(userId, projectId) ==
  LET key == contextKey(userId, projectId)
      video == [id |-> nextId, for |-> <<userId, projectId>>]
  IN  /\ nextId <= MaxId
      /\ contexts' = [k \in DOMAIN contexts \cup {key} |->
                        IF k = key THEN Append(memoryOf(contexts, key), video)
                        ELSE contexts[k]]
      /\ nextId' = nextId + 1
      /\ last' = [action |-> "agent.send",
                  args |-> [userId |-> userId, projectId |-> projectId],
                  result |-> [videoId |-> nextId]]
      /\ UNCHANGED <<projVars, libVars, analytics, storeVars, diskFaulty, agentInstance,
                     callers, extVars, nextBlob>>

\* GET /api/agent/memory: the project memory returned for (userId, projectId)
GetProjectMemory(userId, projectId) ==
  /\ last' = [action |-> "agent.getContext",
              args |-> [userId |-> userId, projectId |-> projectId],
              result |-> [memory |-> memoryOf(contexts, contextKey(userId, projectId))]]
  /\ UNCHANGED <<projVars, libVars, analytics, storeVars, sysVars, extVars, idVars>>

NextProjects ==
  \/ \E userId \in Names, projectId \in Names : SendToProject(userId, projectId)
  \/ \E userId \in Names, projectId \in Names : GetProjectMemory(userId, projectId)

SpecProjects == Init /\ [][NextProjects]_vars

\* C25: distinct (userId, projectId) pairs address distinct project
\* containers: an action executed for one pair changes the project memory of
\* no other pair, and a read for one pair returns only what was stored for
\* that pair.
C25_DistinctContainers ==
  /\ [][last'.action = "agent.send" =>
          \A userId \in Names, projectId \in Names :
            <<userId, projectId>> # <<last'.args.userId, last'.args.projectId>> =>
              memoryOf(contexts', contextKey(userId, projectId)) =
                memoryOf(contexts, contextKey(userId, projectId))]_vars
  /\ [](last.action = "agent.getContext" =>
          \A i \in 1..Len(last.result.memory) :
            last.result.memory[i].for = <<last.args.userId, last.args.projectId>>)

\* ----------------------------------------------------------------- getAgent
\* agentInstance is "null", "created" (assigned, start() pending or failed)
\* or "started".  A caller is idle, waits at `await agentInstance.start()`,
\* holds the instance it was returned (got: the state of the instance at the
\* return), or was thrown the error of start().

\* getAgent up to its first await, or to its return when there is none
GetAgentCall(c) ==
  /\ callers[c].pc = "idle"
  /\ IF agentInstance = "null"
     THEN /\ agentInstance' = "created"
          /\ callers' = [callers EXCEPT ![c] = [pc |-> "awaitStart", got |-> "none"]]
     ELSE /\ callers' = [callers EXCEPT ![c] = [pc |-> "returned", got |-> agentInstance]]
          /\ UNCHANGED agentInstance
  /\ last' = [action |-> "getAgent", caller |-> c]
  /\ UNCHANGED <<memoryVars, diskFaulty, contexts, inflight, idVars>>

\* start() of the created instance resolves
StartResolves ==
  /\ agentInstance = "created"
  /\ \E c \in Callers : callers[c].pc = "awaitStart"
  /\ agentInstance' = "started"
  /\ last' = [action |-> "start", outcome |-> "resolved"]
  /\ UNCHANGED <<memoryVars, diskFaulty, contexts, callers, inflight, idVars>>

\* start() rejects: the awaiting caller is thrown the error, the instance
\* stays assigned
StartRejects ==
  /\ agentInstance = "created"
  /\ \E c \in Callers :
       /\ callers[c].pc = "awaitStart"
       /\ callers' = [callers EXCEPT ![c] = [pc |-> "threw", got |-> "none"]]
  /\ last' = [action |-> "start", outcome |-> "rejected"]
  /\ UNCHANGED <<memoryVars, diskFaulty, contexts, agentInstance, inflight, idVars>>

\* the caller that awaited start() continues and returns the instance
GetAgentResume(c) ==
  /\ callers[c].pc = "awaitStart"
  /\ agentInstance = "started"
  /\ callers' = [callers EXCEPT ![c] = [pc |-> "returned", got |-> agentInstance]]
  /\ last' = [action |-> "getAgent", caller |-> c]
  /\ UNCHANGED <<memoryVars, diskFaulty, contexts, agentInstance, inflight, idVars>>

\* the request of the caller ends: POST /api/agent/workflow has the agent
\* start a workflow, GET /api/agent/action only lists the actions, a request
\* whose getAgent threw answers 500
CallerEnds(c, starts) ==
  /\ callers[c].pc \in {"returned", "threw"}
  /\ callers' = [callers EXCEPT ![c] = NotCalling]
  /\ IF starts /\ callers[c].pc = "returned" /\ nextId <= MaxId
     THEN /\ activeWorkflows' = Append(activeWorkflows, newWorkflow(nextId, "intro", <<>>))
          /\ nextId' = nextId + 1
     ELSE UNCHANGED <<activeWorkflows, nextId>>
  /\ last' = [action |-> "request ended", caller |-> c]
  /\ UNCHANGED <<projVars, libVars, analytics, storeVars, diskFaulty, contexts, agentInstance,
                 prefVars, inflight, nextBlob>>

NextAgent ==
  \/ \E c \in Callers : GetAgentCall(c)
  \/ StartResolves
  \/ StartRejects
  \/ \E c \in Callers : GetAgentResume(c)
  \/ \E c \in Callers, starts \in BOOLEAN : CallerEnds(c, starts)

SpecAgent == Init /\ [][NextAgent]_vars

\* C26: under every interleaving of concurrent getAgent calls, a caller is
\* returned the agent instance only after its start() has completed.
C26_StartedBeforeReturn ==
  \A c \in Callers : callers[c].pc = "returned" => callers[c].got = "started"

\* C27: whenever the action executed through POST /api/agent/action returns
\* a failure result (success = false), the top-level success of the HTTP
\* response is false; it is true only when the action itself succeeded.
C27_RouteReportsFailure ==
  (/\ last.action = "POST /api/agent/action"
   /\ last.agent
   /\ "result" \in DOMAIN last.result
   /\ "success" \in DOMAIN last.result.result
   /\ ~last.result.result.success) => ~last.result.success

\* C28: after update-video-preferences with a style s and a negativePrompt n,
\* videoSettings.preferredStyle is s and videoSettings.defaultNegativePrompt
\* is n, and every setting the call does not supply keeps its value.
C28_PreferencesStored ==
  [][last'.action = "update-video-preferences" =>
       /\ (last'.args.style # Undefined /\ last'.args.negativePrompt # Undefined) =>
            /\ videoSettings'.preferredStyle = last'.args.style
            /\ videoSettings'.defaultNegativePrompt = last'.args.negativePrompt
       /\ \A k \in {"aspectRatio", "model"} :
            last'.args[k] = Undefined => videoSettings'[k] = videoSettings[k]
       /\ last'.args.style = Undefined =>
            videoSettings'.preferredStyle = videoSettings.preferredStyle
       /\ last'.args.negativePrompt = Undefined =>
            videoSettings'.defaultNegativePrompt = videoSettings.defaultNegativePrompt]_vars

\* C29: in every reachable state every video record with status ready, in
\* the project and in the media library, has a result url.
C29_ReadyHasUrl ==
  /\ \A i \in 1..Len(videos) : videos[i].status = "ready" => videos[i].url # NoUrl
  /\ \A i \in 1..Len(libVideos) : libVideos[i].status = "ready" => libVideos[i].url # NoUrl

\* the durations of the log that count: present and not 0
RECURSIVE SuppliedDurations(_)
SuppliedDurations(events) ==
  IF events = <<>> THEN <<>>
  ELSE LET d == Head(events).data.duration
       IN  IF d \in {NoDuration, 0} THEN SuppliedDurations(Tail(events))
           ELSE <<d>> \o SuppliedDurations(Tail(events))

RECURSIVE Sum(_)
Sum(ds) == IF ds = <<>> THEN 0 ELSE Head(ds) + Sum(Tail(ds))

\* C30: after a sequence of successful video events of which some omit the
\* duration or give duration 0, averageVideoTime is the arithmetic mean of
\* the durations supplied (0 when none was), so that an event without a
\* duration does not shift the average.
C30_MeanOfSupplied ==
  (\A i \in 1..Len(analytics.events) :
     /\ analytics.events[i].type = "video_generated"
     /\ analytics.events[i].data.success) =>
    LET ds == SuppliedDurations(analytics.events)
        avg == analytics.performance.averageVideoTime
    IN  IF ds = <<>> THEN avg.num = 0
        ELSE avg.num * Len(ds) = Sum(ds) * avg.den

====
